---- MODULE Spec2Model ----
(***************************************************************************)
(* The circuit proveValueForKeyIsInSignedMerkleTreeAndWithinBounds(depth)   *)
(* as a constraint system over a prime field, together with the tree       *)
(* builder and the signer that produce its inputs.                          *)
(*                                                                         *)
(* Field elements are of two sorts.  Numbers are kept as integers modulo   *)
(* the field prime, so that wrap-around is visible.  Hash outputs, public   *)
(* keys and signatures are kept as terms: Poseidon is a free constructor    *)
(* (collision-free), and a signature verifies exactly for the key and the   *)
(* message it was made with.  An element is a tuple whose length tells the  *)
(* sort: <<n>> a number, <<1, x>> Poseidon(1), <<2, l, r>> Poseidon(2).     *)
(***************************************************************************)
EXTENDS Integers, Sequences, FiniteSets, TLC

VARIABLES data, in, out, prev, prevOut, op,
          proofService, returned,
          activePage, podCreator, proofGenerator, proofVerifier,
          script

vars == <<data, in, out, prev, prevOut, op, proofService, returned,
          activePage, podCreator, proofGenerator, proofVerifier, script>>

\* The variables of the prover, of a ProofService called directly, of the
\* React application and of the test-data scripts.
circuitVars == <<data, in, out, prev, prevOut, op>>

serviceVars == <<proofService, returned>>

appVars == <<activePage, podCreator, proofGenerator, proofVerifier>>

frontEndVars == <<proofService, returned, activePage, podCreator,
                  proofGenerator, proofVerifier, script>>

-----------------------------------------------------------------------------
(* Sizes.  The circuit is instantiated with depth 5 and compares 64-bit     *)
(* numbers in a 254-bit field; the model keeps the same relations between   *)
(* the three (2^depth < p, 2^(BitWidth+1) < p) at sizes TLC can enumerate.  *)

depth == 2

BitWidth == 2

\* The field modulus: the least prime above 2^(BitWidth+2), by bit width.
LeastPrimes == <<11, 17, 37, 67, 131>>

FieldPrime == LeastPrimes[BitWidth]

Field == 0..(FieldPrime - 1)

\* Key-value pairs a tree is built from, and the signers' private keys.
Pairs == {<<1, 1>>, <<1, 2>>}

PrivateKeys == {1, 2}

-----------------------------------------------------------------------------
(* Field elements *)

Num(n) == <<n>>

IsNum(e) == Len(e) = 1

Zero == Num(0)

One == Num(1)

\* a * e, for a number a and an element e
FMul(a, e) ==
    IF a = 0 THEN Zero
    ELSE IF a = 1 THEN e
    ELSE IF IsNum(e) THEN Num((a * e[1]) % FieldPrime)
    ELSE <<4, Num(a), e, 0>>

\* a + b, for elements a and b
FAdd(a, b) ==
    IF IsNum(a) /\ IsNum(b) THEN Num((a[1] + b[1]) % FieldPrime)
    ELSE IF a = Zero THEN b
    ELSE IF b = Zero THEN a
    ELSE <<3, a, b, 0>>

\* a - b, for numbers a and b
FSub(a, b) == (a + FieldPrime - b) % FieldPrime

-----------------------------------------------------------------------------
(* The library gadgets the circuit includes *)

Poseidon1(x) == <<1, x>>

Poseidon2(l, r) == <<2, l, r>>

\* out[i] <-- (in >> i) & 1
Num2BitsOut(n, x) == [i \in 0..(n - 1) |-> (x \div (2 ^ i)) % 2]

RECURSIVE Lc1(_, _)
Lc1(n, bits) ==
    IF n = 0 THEN 0 ELSE Lc1(n - 1, bits) + bits[n - 1] * (2 ^ (n - 1))

\* out[i] * (out[i] - 1) === 0 for every i, and lc1 === in
Num2BitsConstraints(n, x, bits) ==
    /\ \A i \in 0..(n - 1) : (bits[i] * FSub(bits[i], 1)) % FieldPrime = 0
    /\ Lc1(n, bits) % FieldPrime = x

\* The values a bit signal can take under out[i] * (out[i] - 1) === 0.
BitSolutions == {b \in Field : (b * FSub(b, 1)) % FieldPrime = 0}

\* Num2Bits(n) on x: the bits the witness program computes, and whether
\* they satisfy the constraints.
Num2Bits(n, x) ==
    [width |-> n,
     input |-> x,
     bits  |-> Num2BitsOut(n, x),
     ok    |-> Num2BitsConstraints(n, x, Num2BitsOut(n, x))]

\* Whether any assignment of the component's outputs satisfies its constraints.
Satisfiable(c) ==
    \E b \in [0..(c.width - 1) -> BitSolutions] :
        Num2BitsConstraints(c.width, c.input, b)

\* LessThan(n): n2b is Num2Bits(n+1) of in[0] + (1<<n) - in[1], and the
\* output is 1 - n2b.out[n]
LessThan(n, a, b) ==
    LET n2b == Num2Bits(n + 1, FSub((a + 2 ^ n) % FieldPrime, b))
    IN  [result |-> 1 - n2b.bits[n], ok |-> n2b.ok]

\* GreaterThan(n): LessThan(n) with the inputs exchanged
GreaterThan(n, a, b) == LessThan(n, b, a)

\* derivePublicKey, signMessage: the key and the signature as terms
DerivePublicKey(sk) == <<<<5, sk, 0, 0, 0>>, <<5, sk, 1, 0, 0>>>>

SignMessage(sk, msg) ==
    [R8 |-> <<<<7, sk, msg, 0, 0, 0>>, <<7, sk, msg, 1, 0, 0>>>>,
     S  |-> <<8, sk, msg, 0, 0, 0, 0>>]

\* EdDSAPoseidonVerifier: with enabled = 1, the signature (R8, S) must be
\* the one made over M with the private key of (Ax, Ay)
EdDSAPoseidonVerifier(enabled, Ax, Ay, sigS, R8x, R8y, msg) ==
    enabled = 1 =>
        \E sk \in PrivateKeys :
            /\ <<Ax, Ay>> = DerivePublicKey(sk)
            /\ [R8 |-> <<R8x, R8y>>, S |-> sigS] = SignMessage(sk, msg)

-----------------------------------------------------------------------------
(* The circuit template, constraint by constraint.  An input is a record   *)
(* of the template's input signals; key, value, index and the two bounds    *)
(* are numbers, siblings is indexed 0..depth-1 as in the source.            *)

\* As IndexBits, decomposing into one bit too many.
IndexBitsTooWide(i) == Num2Bits(depth + 1, i.index)

\* component indexBits = Num2Bits(depth); indexBits.in <== index
IndexBits(i) == Num2Bits(depth, i.index)

\* component valueBits = Num2Bits(64); valueBits.in <== value
ValueBits(i) == Num2Bits(BitWidth, i.value)

\* component upperboundBits = Num2Bits(64); upperboundBits.in <== upperbound
UpperboundBits(i) == Num2Bits(BitWidth, i.upperbound)

\* The signals the template bit-constrains before the comparisons.
BitConstraints(i) == ValueBits(i).ok /\ UpperboundBits(i).ok

\* lessThan.in[0] <== value; lessThan.in[1] <== upperbound; lessThan.out === 1
LessThanBound(i) ==
    LET lessThan == LessThan(BitWidth, i.value, i.upperbound)
    IN  lessThan.ok /\ lessThan.result = 1

\* As GreaterThanBound, with the comparator's two inputs exchanged.
GreaterThanBoundExchanged(i) ==
    LET greaterThan == GreaterThan(BitWidth, i.lowerbound, i.value)
    IN  greaterThan.ok /\ greaterThan.result = 1

\* greaterThan.in[0] <== value; greaterThan.in[1] <== lowerbound; greaterThan.out === 1
GreaterThanBound(i) ==
    LET greaterThan == GreaterThan(BitWidth, i.value, i.lowerbound)
    IN  greaterThan.ok /\ greaterThan.result = 1

\* keyHash <== poseidonOfKey.out
KeyHash(i) == Poseidon1(Num(i.key))

\* As KeyBinding, with the two hashes logged and never constrained.
KeyBindingLoggedOnly(i) == TRUE

\* siblings[0] === keyHash
KeyBinding(i) == i.siblings[0] = KeyHash(i)

\* As MerkleStep, with the running hash on the left when the bit is 1.
MerkleStepMirrored(bit, hash, sibling) ==
    Poseidon2(FAdd(FMul(bit, hash), FMul(FSub(1, bit), sibling)),
              FAdd(FMul(FSub(1, bit), hash), FMul(bit, sibling)))

\* As MerkleStep, with the running hash in place of the sibling in the term
\* that puts the sibling on the left.
MerkleStepHashTwice(bit, hash, sibling) ==
    Poseidon2(FAdd(FMul(FSub(1, bit), hash), FMul(bit, hash)),
              FAdd(FMul(bit, hash), FMul(FSub(1, bit), sibling)))

\* As MerkleStep, with the running hash always on the left.
MerkleStepBitIgnored(bit, hash, sibling) == Poseidon2(hash, sibling)

\* One pass of the loop body: the two hasher inputs selected by the bit,
\* and merkleHash[i + 1] <== merkleHasher[i].out
MerkleStep(bit, hash, sibling) ==
    LET hashIfLeftChildElseZero  == FMul(FSub(1, bit), hash)
        hashIfRightChildElseZero == FMul(bit, hash)
        siblingIfLeftElseZero    == FMul(bit, sibling)
        siblingIfRightElseZero   == FMul(FSub(1, bit), sibling)
    IN  Poseidon2(FAdd(hashIfLeftChildElseZero, siblingIfLeftElseZero),
                  FAdd(hashIfRightChildElseZero, siblingIfRightElseZero))

\* merkleHash[0] <== poseidonOfValue.out, then the loop up to level k
RECURSIVE MerkleHashAt(_, _, _, _)
MerkleHashAt(v, bits, sibs, k) ==
    IF k = 0 THEN Poseidon1(Num(v))
    ELSE MerkleStep(bits[k - 1],
                    MerkleHashAt(v, bits, sibs, k - 1),
                    sibs[k - 1])

MerkleHashes(i) ==
    [k \in 0..depth |-> MerkleHashAt(i.value, IndexBits(i).bits, i.siblings, k)]

\* As RootConstraint, with the computed root logged and never constrained.
RootConstraintLoggedOnly(i) == TRUE

\* root === merkleHash[depth]
RootConstraint(i) == i.root = MerkleHashes(i)[depth]

\* The message the verifier is given: sigVerifier.M <== root
SigMessage(i) == i.root

\* As SigVerifier, with the verifier switched off.
SigVerifierDisabled(i) ==
    EdDSAPoseidonVerifier(0, i.pubKey[1], i.pubKey[2], i.signedRoot_S,
                          i.signedRoot_R8[1], i.signedRoot_R8[2], SigMessage(i))

\* sigVerifier.enabled <== 1, and the wiring of the key and the signature
SigVerifier(i) ==
    EdDSAPoseidonVerifier(1, i.pubKey[1], i.pubKey[2], i.signedRoot_S,
                          i.signedRoot_R8[1], i.signedRoot_R8[2], SigMessage(i))

\* The whole template: its signals, and which constraints the input satisfies.
Circuit(i) ==
    [indexBits      |-> IndexBits(i),
     valueBits      |-> ValueBits(i),
     upperboundBits |-> UpperboundBits(i),
     lessThanOk     |-> LessThanBound(i),
     greaterThanOk  |-> GreaterThanBound(i),
     keyOk          |-> KeyBinding(i),
     merkleHash     |-> MerkleHashes(i),
     rootOk         |-> RootConstraint(i),
     message        |-> SigMessage(i),
     sigOk          |-> SigVerifier(i),
     ok             |-> /\ IndexBits(i).ok
                        /\ BitConstraints(i)
                        /\ LessThanBound(i)
                        /\ GreaterThanBound(i)
                        /\ KeyBinding(i)
                        /\ RootConstraint(i)
                        /\ SigVerifier(i)]

-----------------------------------------------------------------------------
(* The tree builder and the signer *)

\* buildTree: the key hash and the value hash of each pair as adjacent leaves
Leaves(d) ==
    [j \in 0..(2 ^ depth - 1) |->
        Poseidon1(Num(d[j \div 2][(j % 2) + 1]))]

\* The number a leaf commits to.
RawLeaf(d, j) == d[j \div 2][(j % 2) + 1]

\* MerkleTree.buildTree: node i of layer l, each the hash of its two children
RECURSIVE Node(_, _, _)
Node(leaves, l, i) ==
    IF l = 0 THEN leaves[i]
    ELSE Poseidon2(Node(leaves, l - 1, 2 * i), Node(leaves, l - 1, 2 * i + 1))

\* MerkleTree.getRoot
GetRoot(leaves) == Node(leaves, depth, 0)

\* MerkleTree.getProof: the sibling of the path's node in each layer
GetProof(leaves, idx) ==
    [l \in 0..(depth - 1) |->
        LET currentIndex == idx \div (2 ^ l)
            isLeft       == currentIndex % 2 = 0
            siblingIndex == IF isLeft THEN currentIndex + 1 ELSE currentIndex - 1
        IN  Node(leaves, l, siblingIndex)]

\* The input assembled for leaf idx of the tree over d, its root signed
\* with sk: the proof of the leaf, the number it commits to as value and the
\* number its neighbour commits to as key.
HonestInput(d, idx, sk, lb, ub) ==
    LET leaves    == Leaves(d)
        merkleRoot == GetRoot(leaves)
        signature == SignMessage(sk, merkleRoot)
        neighbour == IF idx % 2 = 0 THEN idx + 1 ELSE idx - 1
    IN  [key           |-> RawLeaf(d, neighbour),
         value         |-> RawLeaf(d, idx),
         index         |-> idx,
         siblings      |-> GetProof(leaves, idx),
         root          |-> merkleRoot,
         lowerbound    |-> lb,
         upperbound    |-> ub,
         pubKey        |-> DerivePublicKey(sk),
         signedRoot_R8 |-> signature.R8,
         signedRoot_S  |-> signature.S]

-----------------------------------------------------------------------------
(* Reference values *)

\* The tree the reference input is taken from, and the widest honest bounds.
ReferenceData == [k \in 0..(2 ^ (depth - 1) - 1) |-> <<1, 2>>]

MaxBound == 2 ^ BitWidth - 1

\* Elements a prover may put where a hash is expected.
ElementPool ==
    {Zero, Poseidon1(Num(1)), Poseidon2(Poseidon1(Num(1)), Poseidon1(Num(1)))}

-----------------------------------------------------------------------------
(* JavaScript values.  The front end passes field elements around as        *)
(* decimal strings.  A JavaScript value is a pair whose first component     *)
(* tells what it is: <<6, e>> the decimal string of the element e,          *)
(* <<7, n>> a string that is no decimal number (n = 0: the empty string),   *)
(* <<8, 0>> undefined or null, <<9, s>> the array with the elements s,      *)
(* <<13, n>> the number n where it is not written as a string.              *)

\* toString() of a number or bigint, and the string the user types for it
Str(e) == <<6, e>>

IsStr(v) == v[1] = 6

\* BigInt(s) for a decimal string s
BigIntOf(s) == s[2]

EmptyText == <<7, 0>>

OtherText == <<7, 1>>

Undefined == <<8, 0>>

Arr(s) == <<9, s>>

\* Array.isArray
IsArray(v) == v[1] = 9

Elems(v) == v[2]

\* The number 0, as JSON.parse gives it for 0
NumberZero == <<13, 0>>

\* !v : undefined, null, the empty string and the number 0 are falsy
Falsy(v) == v = Undefined \/ v = EmptyText \/ v = NumberZero

\* s.trim() === '' : only the empty text is blank here
Blank(v) == v = EmptyText

-----------------------------------------------------------------------------
(* LeanIMT of @zk-kit/lean-imt: a tree over any number of leaves, kept as  *)
(* a sequence (leaf j of the source is element j + 1).  A node without a    *)
(* right sibling is carried to the next level unhashed, and a proof lists   *)
(* only the siblings that exist.                                            *)

\* Number of nodes at level l of a tree with n leaves
LeanSize(n, l) == (n + 2 ^ l - 1) \div (2 ^ l)

\* tree.depth: the least l with 2^l >= n
LeanDepth(n) == CHOOSE l \in 0..n : 2 ^ l >= n /\ \A m \in 0..(l - 1) : 2 ^ m < n

RECURSIVE LeanNode(_, _, _)
LeanNode(leaves, l, i) ==
    IF l = 0 THEN leaves[i + 1]
    ELSE IF 2 * i + 1 < LeanSize(Len(leaves), l - 1)
         THEN Poseidon2(LeanNode(leaves, l - 1, 2 * i),
                        LeanNode(leaves, l - 1, 2 * i + 1))
         ELSE LeanNode(leaves, l - 1, 2 * i)

\* tree.root
LeanRoot(leaves) == LeanNode(leaves, LeanDepth(Len(leaves)), 0)

\* The levels at which the path of leaf idx has a sibling, in order
LeanLevels(leaves, idx) ==
    LET n == Len(leaves)
        sibling(l) == IF (idx \div (2 ^ l)) % 2 = 1
                      THEN idx \div (2 ^ l) - 1
                      ELSE idx \div (2 ^ l) + 1
    IN  SelectSeq([j \in 1..LeanDepth(n) |-> j - 1],
                  LAMBDA l : sibling(l) < LeanSize(n, l))

\* tree.generateProof(idx): the siblings that exist, and as index the
\* number whose bits are the left/right positions at those levels
LeanGenerateProof(leaves, idx) ==
    LET levels == LeanLevels(leaves, idx)
        position(l) == (idx \div (2 ^ l)) % 2
        siblingAt(l) == IF position(l) = 1
                        THEN LeanNode(leaves, l, idx \div (2 ^ l) - 1)
                        ELSE LeanNode(leaves, l, idx \div (2 ^ l) + 1)
    IN  [root     |-> LeanRoot(leaves),
         leaf     |-> leaves[idx + 1],
         index    |-> Lc1(Len(levels),
                          [j \in 0..(Len(levels) - 1) |-> position(levels[j + 1])]),
         siblings |-> [j \in 1..Len(levels) |-> siblingAt(levels[j])]]

-----------------------------------------------------------------------------
(* MerkleTreeService.  Its state is the record of its fields: data, the    *)
(* key-value pairs as strings; tree, the leaves of its LeanIMT (empty: no   *)
(* tree); root (empty: no root).  An operation that can throw yields the   *)
(* state it leaves behind and whether it threw.                             *)

\* constructor, reset
ServiceReset == [data |-> <<>>, tree |-> <<>>, root |-> <<>>]

\* As ServiceLeaves, with the value hash pushed before the key hash.
ServiceLeavesValueFirst(d) ==
    [j \in 1..(2 * Len(d)) |->
        Poseidon1(BigIntOf(IF j % 2 = 1 THEN d[(j + 1) \div 2].value
                                        ELSE d[j \div 2].key))]

\* buildTree, the loop: leaves.push(keyHash); leaves.push(valueHash)
ServiceLeaves(d) ==
    [j \in 1..(2 * Len(d)) |->
        Poseidon1(BigIntOf(IF j % 2 = 1 THEN d[(j + 1) \div 2].key
                                        ELSE d[j \div 2].value))]

\* poseidon1 takes what BigInt takes: decimal strings
Hashable(d) == \A j \in 1..Len(d) : IsStr(d[j].key) /\ IsStr(d[j].value)

\* buildTree
BuildTree(svc) ==
    IF Len(svc.data) = 0 \/ ~Hashable(svc.data)
    THEN [threw |-> TRUE, service |-> svc]
    ELSE [threw |-> FALSE,
          service |-> [svc EXCEPT !.tree = ServiceLeaves(svc.data),
                                !.root = LeanRoot(ServiceLeaves(svc.data))]]

\* As ValueIndex, with the leaf of the key.
ValueIndexOfKey(idx) == idx * 2

\* getProof: const valueIndex = index * 2 + 1
ValueIndex(idx) == idx * 2 + 1

\* getProof(idx), for a built tree and 0 <= idx < data.length
ServiceGetProof(svc, idx) ==
    LET valueProof == LeanGenerateProof(svc.tree, ValueIndex(idx))
    IN  [key      |-> svc.data[idx + 1].key,
         value    |-> svc.data[idx + 1].value,
         index    |-> Str(Num(ValueIndex(idx))),
         siblings |-> Arr([j \in 1..Len(valueProof.siblings) |->
                              Str(valueProof.siblings[j])]),
         root     |-> Str(svc.root)]

\* exportData
ExportData(svc) == [data |-> svc.data, merkleRoot |-> Str(svc.root)]

\* As ImportData, without the comparison of the roots.
ImportDataRootUnchecked(podData) ==
    BuildTree([ServiceReset EXCEPT !.data = podData.data])

\* importData: reset, add every pair, rebuild, compare the roots
ImportData(podData) ==
    LET added == [ServiceReset EXCEPT !.data = podData.data]
        built == BuildTree(added)
    IN  IF built.threw THEN built
        ELSE [threw |-> /\ ~Falsy(podData.merkleRoot)
                        /\ Str(built.service.root) # podData.merkleRoot,
              service |-> built.service]

-----------------------------------------------------------------------------
(* SignatureService.  Its state is its keyPair; private keys are the       *)
(* decimal strings of PrivateKeys.                                          *)

NoKeyPair == [privateKey |-> Undefined, publicKey |-> Undefined]

\* importKeyPair, and generateKeyPair for the key it draws
ImportKeyPair(text) ==
    [privateKey |-> text, publicKey |-> DerivePublicKey(BigIntOf(text)[1])]

\* As Sign, signing 0 whatever the message.
SignZero(kp, msg) ==
    LET signature == SignMessage(BigIntOf(kp.privateKey)[1], Zero)
    IN  [R8 |-> Arr(<<Str(signature.R8[1]), Str(signature.R8[2])>>),
         S  |-> Str(signature.S)]

\* sign(message): the signature as strings
Sign(kp, msg) ==
    LET signature == SignMessage(BigIntOf(kp.privateKey)[1], BigIntOf(msg))
    IN  [R8 |-> Arr(<<Str(signature.R8[1]), Str(signature.R8[2])>>),
         S  |-> Str(signature.S)]

\* A POD no component holds: the null of the pod states.
NoPod ==
    [data |-> <<>>, merkleRoot |-> Undefined,
     signature |-> [R8 |-> Undefined, S |-> Undefined], publicKey |-> Undefined]

\* signPOD(pod), for a pod with a root and data and a service with a key
SignPOD(kp, podData) ==
    [data       |-> podData.data,
     merkleRoot |-> podData.merkleRoot,
     signature  |-> Sign(kp, podData.merkleRoot),
     publicKey  |-> Arr(<<Str(kp.publicKey[1]), Str(kp.publicKey[2])>>)]

\* verify, verifyPOD
VerifyPOD(p) ==
    /\ IsStr(p.merkleRoot) /\ IsArray(p.publicKey) /\ IsArray(p.signature.R8)
    /\ IsStr(p.signature.S)
    /\ EdDSAPoseidonVerifier(1, BigIntOf(Elems(p.publicKey)[1]),
                             BigIntOf(Elems(p.publicKey)[2]),
                             BigIntOf(p.signature.S),
                             BigIntOf(Elems(p.signature.R8)[1]),
                             BigIntOf(Elems(p.signature.R8)[2]),
                             BigIntOf(p.merkleRoot))

-----------------------------------------------------------------------------
(* ProofService and snarkjs.  A proof request is a record of the ten       *)
(* fields as JavaScript values.                                             *)

\* formatCircuitInputs: the condition under which it throws
MissingFields(req) ==
    \/ Falsy(req.key) \/ Falsy(req.value) \/ Falsy(req.index)
    \/ Falsy(req.siblings) \/ Falsy(req.root)
    \/ req.lowerbound = Undefined \/ req.upperbound = Undefined
    \/ Falsy(req.signedRoot_R8) \/ Falsy(req.signedRoot_S) \/ Falsy(req.pubKey)

\* formatCircuitInputs: it throws, or returns the ten fields
FormatCircuitInputs(req) ==
    [threw  |-> MissingFields(req),
     inputs |-> [key           |-> req.key,
                 value         |-> req.value,
                 index         |-> req.index,
                 siblings      |-> req.siblings,
                 root          |-> req.root,
                 lowerbound    |-> req.lowerbound,
                 upperbound    |-> req.upperbound,
                 signedRoot_R8 |-> req.signedRoot_R8,
                 signedRoot_S  |-> req.signedRoot_S,
                 pubKey        |-> req.pubKey]]

\* generateProof, formattedInputs: strings stay as they are, and what is
\* no array is replaced by a default array
FormattedInputs(req) ==
    [req EXCEPT
        !.siblings      = IF IsArray(@) THEN @ ELSE Arr(<<>>),
        !.signedRoot_R8 = IF IsArray(@) THEN @ ELSE Arr(<<Str(Zero), Str(Zero)>>),
        !.pubKey        = IF IsArray(@) THEN @ ELSE Arr(<<Str(Zero), Str(Zero)>>)]

\* What the witness calculator of snarkjs accepts for the template's
\* signals: decimal strings, in arrays of the declared sizes
FitsSignals(fi) ==
    /\ \A v \in {fi.key, fi.value, fi.index, fi.root, fi.lowerbound,
                 fi.upperbound, fi.signedRoot_S} : IsStr(v)
    /\ \A a \in {fi.siblings, fi.signedRoot_R8, fi.pubKey} :
          \A j \in 1..Len(Elems(a)) : IsStr(Elems(a)[j])
    /\ Len(Elems(fi.siblings)) = depth
    /\ Len(Elems(fi.signedRoot_R8)) = 2
    /\ Len(Elems(fi.pubKey)) = 2

\* The signals the witness calculator reads from inputs that fit
CircuitInputOf(fi) ==
    [key           |-> BigIntOf(fi.key)[1],
     value         |-> BigIntOf(fi.value)[1],
     index         |-> BigIntOf(fi.index)[1],
     siblings      |-> [l \in 0..(depth - 1) |-> BigIntOf(Elems(fi.siblings)[l + 1])],
     root          |-> BigIntOf(fi.root),
     lowerbound    |-> BigIntOf(fi.lowerbound)[1],
     upperbound    |-> BigIntOf(fi.upperbound)[1],
     pubKey        |-> <<BigIntOf(Elems(fi.pubKey)[1]), BigIntOf(Elems(fi.pubKey)[2])>>,
     signedRoot_R8 |-> <<BigIntOf(Elems(fi.signedRoot_R8)[1]),
                         BigIntOf(Elems(fi.signedRoot_R8)[2])>>,
     signedRoot_S  |-> BigIntOf(fi.signedRoot_S)]

\* As PublicSignals, with the root declared public as well.
PublicSignalsWithRoot(i) ==
    Arr(<<Str(Num(i.key)), Str(Num(i.lowerbound)), Str(Num(i.upperbound)),
          Str(i.pubKey[1]), Str(i.pubKey[2]), Str(i.root)>>)

\* component main { public [key, lowerbound, upperbound, pubKey] }
PublicSignals(i) ==
    Arr(<<Str(Num(i.key)), Str(Num(i.lowerbound)), Str(Num(i.upperbound)),
          Str(i.pubKey[1]), Str(i.pubKey[2])>>)

\* A Groth16 proof: it verifies for the public signals it was made for and
\* carries nothing else of the witness.
Groth16Proof(signals) == <<10, signals>>

\* The verification key of the circuit, as verification_key.json holds it
CircuitKey == <<11, 0>>

\* snarkjs.groth16.verify; it throws for a key that is no verification key
Groth16Verify(vk, signals, pf) ==
    [threw  |-> vk # CircuitKey,
     result |-> vk = CircuitKey /\ pf = Groth16Proof(signals)]

\* snarkjs.groth16.fullProve: it throws unless the inputs fit the signals
\* and satisfy the constraints
FullProve(fi) ==
    IF FitsSignals(fi) /\ Circuit(CircuitInputOf(fi)).ok
    THEN [threw         |-> FALSE,
          proof         |-> Groth16Proof(PublicSignals(CircuitInputOf(fi))),
          publicSignals |-> PublicSignals(CircuitInputOf(fi))]
    ELSE [threw |-> TRUE, proof |-> Undefined, publicSignals |-> Undefined]

\* meta.description: the text with key, lowerbound and upperbound in it
Description(req) == <<req.key, req.lowerbound, req.upperbound>>

\* generateProof: whether it gets as far as calling snarkjs.groth16.fullProve
CallsFullProve(req) == ~MissingFields(req)

\* generateProof: what it returns, or that it threw
GenerateProof(req) ==
    IF CallsFullProve(req) /\ ~FullProve(FormattedInputs(req)).threw
    THEN [threw          |-> FALSE,
          fullProveCalled |-> TRUE,
          proof          |-> FullProve(FormattedInputs(req)).proof,
          publicSignals  |-> FullProve(FormattedInputs(req)).publicSignals,
          description    |-> Description(req)]
    ELSE [threw          |-> TRUE,
          fullProveCalled |-> CallsFullProve(req),
          proof          |-> Undefined,
          publicSignals  |-> Undefined,
          description    |-> Undefined]

-----------------------------------------------------------------------------
(* The PODs and proof requests the front end is driven with *)

\* The most pairs a POD holds here: one more than fill the circuit's tree.
MaxPairs == 2 ^ (depth - 1) + 1

\* Pairs a full tree of the circuit's depth holds.
FullPairs == 2 ^ (depth - 1)

\* n pairs with distinct keys 3, 4, ...; the list starts r places into the
\* keys, and key 3 has the value v, every other key the value 3 - v.
DataOf(n, v, r) ==
    [j \in 1..n |->
        [key   |-> Str(Num(((j - 1 + r) % n) + 3)),
         value |-> Str(Num(IF ((j - 1 + r) % n) + 3 = 3 THEN v ELSE 3 - v))]]

PrivateKeyTexts == {Str(Num(sk)) : sk \in PrivateKeys}

\* The POD PODCreator makes of the pairs d with the key of text t
PodOf(d, t) ==
    SignPOD(ImportKeyPair(t), ExportData(BuildTree([ServiceReset EXCEPT !.data = d]).service))

\* ProofGenerator.generateProof, proofRequest: key and value of the chosen
\* pair, index and siblings from getProof, the rest from the POD
AssembleRequest(svc, p, idx, lb, ub) ==
    [key           |-> p.data[idx + 1].key,
     value         |-> p.data[idx + 1].value,
     index         |-> ServiceGetProof(svc, idx).index,
     siblings      |-> ServiceGetProof(svc, idx).siblings,
     root          |-> p.merkleRoot,
     lowerbound    |-> lb,
     upperbound    |-> ub,
     signedRoot_R8 |-> p.signature.R8,
     signedRoot_S  |-> p.signature.S,
     pubKey        |-> p.publicKey]

\* The request ProofGenerator assembles once it has loaded the POD p
RequestOf(p, idx, lb, ub) == AssembleRequest(ImportData(p).service, p, idx, lb, ub)

\* No request: the ten fields undefined.
NoRequest ==
    [key |-> Undefined, value |-> Undefined, index |-> Undefined,
     siblings |-> Undefined, root |-> Undefined, lowerbound |-> Undefined,
     upperbound |-> Undefined, signedRoot_R8 |-> Undefined,
     signedRoot_S |-> Undefined, pubKey |-> Undefined]

\* The place of key 3 in the data d
PlaceOfFirstKey(d) == CHOOSE j \in 1..Len(d) : d[j].key = Str(Num(3))

-----------------------------------------------------------------------------
(* ProofService: the verification key *)

\* fetch of /circuit/verification_key.json can deliver the key, deliver a
\* JSON document that is no key, or fail
FetchFailed == Undefined

FetchOutcomes == {CircuitKey, OtherText, FetchFailed}

\* As LoadVerificationKey, fetching whether or not a key is cached.
LoadVerificationKeyAlwaysFetches(cached, fetched) ==
    IF fetched = FetchFailed THEN [threw |-> TRUE, vKey |-> cached]
    ELSE [threw |-> FALSE, vKey |-> fetched]

\* loadVerificationKey: the cached key if there is one, else the fetched
\* document, which it keeps
LoadVerificationKey(cached, fetched) ==
    IF ~Falsy(cached) THEN [threw |-> FALSE, vKey |-> cached]
    ELSE IF fetched = FetchFailed THEN [threw |-> TRUE, vKey |-> cached]
    ELSE [threw |-> FALSE, vKey |-> fetched]

\* verifyProof: false when the key does not load or verify throws
VerifyProof(cached, pf, signals, fetched) ==
    [vKey   |-> LoadVerificationKey(cached, fetched).vKey,
     result |-> /\ ~LoadVerificationKey(cached, fetched).threw
                /\ Groth16Verify(LoadVerificationKey(cached, fetched).vKey,
                                 signals, pf).result]

\* Requests handed to generateProof: for the full trees, the pair of key 3
\* under two lower bounds, and the pair after it
HonestRequests ==
    {RequestOf(PodOf(DataOf(FullPairs, v, r), t), PlaceOfFirstKey(DataOf(FullPairs, v, r)) - 1,
               Str(Num(lb)), Str(Num(MaxBound))) :
        v \in {1, 2}, r \in {0, 1}, t \in PrivateKeyTexts, lb \in {0, 1}}

ReferencePod == PodOf(DataOf(FullPairs, 1, 0), Str(Num(1)))

ReferenceRequest == RequestOf(ReferencePod, 0, Str(Num(0)), Str(Num(MaxBound)))

\* The reference request with its shape spoilt in one place
MalformedRequests ==
    {[ReferenceRequest EXCEPT !.siblings = Arr(SubSeq(Elems(@), 1, depth - 1))],
     [ReferenceRequest EXCEPT !.siblings = Elems(@)[1]],
     [ReferenceRequest EXCEPT !.pubKey = Elems(@)[1]],
     [ReferenceRequest EXCEPT !.signedRoot_R8 = Elems(@)[1]],
     [ReferenceRequest EXCEPT !.key = OtherText],
     [ReferenceRequest EXCEPT !.upperbound = OtherText]}

Requests ==
    HonestRequests \cup MalformedRequests
    \cup {RequestOf(ReferencePod, 1, Str(Num(0)), Str(Num(MaxBound))),
          [ReferenceRequest EXCEPT !.key = Undefined],
          [ReferenceRequest EXCEPT !.root = EmptyText],
          [ReferenceRequest EXCEPT !.value = NumberZero],
          [ReferenceRequest EXCEPT !.lowerbound = Undefined],
          [ReferenceRequest EXCEPT !.lowerbound = EmptyText]}

\* What verifyProof is called with: the proof of the reference request with
\* its public signals, and the same proof with other public signals
Verifiables ==
    {[proof |-> GenerateProof(ReferenceRequest).proof,
      publicSignals |-> GenerateProof(q).publicSignals] :
        q \in {ReferenceRequest, RequestOf(ReferencePod, 1, Str(Num(0)), Str(Num(MaxBound)))}}

\* The call before the last one stays in the record of calls.
Keep(calls) == IF calls = <<>> THEN <<>> ELSE <<calls[1]>>

-----------------------------------------------------------------------------
(* The state of the front end after construction *)

\* new ProofService(), held by the component who
NewProofService(who) == [vKey |-> Undefined, owner |-> who]

\* Nothing called yet: `returned` records what the last two calls of
\* generateProof and of verifyProof returned, the latest first.
NoCalls == [proofs |-> <<>>, verifications |-> <<>>]

\* The text of a JSON document holding x
JsonOf(x) == <<12, x>>

IsJson(v) == v[1] = 12

\* JSON.parse of such a text
ParseJson(v) == v[2]

\* Pairs in the JSON text PODCreator starts with: fewer than fill the tree.
DefaultCount == 2 ^ (depth - 1) - 1

\* useState('1234567890') for the private key field
DefaultPrivateKey == Str(Num(1))

\* PODCreator when it mounts: its useState initial values and its services
PODCreatorMounted ==
    [keyValuePairs      |-> <<[key |-> EmptyText, value |-> EmptyText]>>,
     jsonInput          |-> JsonOf(DataOf(DefaultCount, 2, 0)),
     privateKey         |-> DefaultPrivateKey,
     generatedPublicKey |-> Undefined,
     pod                |-> NoPod,
     error              |-> "",
     merkleService      |-> ServiceReset,
     keyPair            |-> NoKeyPair]

\* No proof: the null of localProof.
NoProof ==
    [proof |-> Undefined, publicSignals |-> Undefined, description |-> Undefined]

\* ProofGenerator when it mounts; proofRequest is the request its last
\* generateProof assembled, and pending what proofService.generateProof
\* settles with for it, which the request determines
ProofGeneratorMounted ==
    [directPodInput        |-> EmptyText,
     localPod              |-> NoPod,
     localSelectedKeyIndex |-> -1,
     localLowerBound       |-> EmptyText,
     localUpperBound       |-> EmptyText,
     localProof            |-> NoProof,
     error                 |-> "",
     isGeneratingProof     |-> FALSE,
     merkleService         |-> ServiceReset,
     proofRequest          |-> NoRequest,
     pending               |-> GenerateProof(NoRequest)]

\* No verification result: the null of localVerificationResult.
NoResult == [shown |-> FALSE, isValid |-> FALSE]

\* ProofVerifier when it mounts, with the key its ProofService caches;
\* verifiedInput is the text its last verifyProof handed to the service
ProofVerifierMounted ==
    [localProofInput         |-> EmptyText,
     localVerificationResult |-> NoResult,
     error                   |-> "",
     isVerifying             |-> FALSE,
     vKey                    |-> Undefined,
     verifiedInput           |-> EmptyText]

\* No script has run.
NotRun ==
    [name |-> "", leaves |-> <<>>, proved |-> 0,
     proof |-> [root |-> <<>>, leaf |-> <<>>, index |-> 0, siblings |-> <<>>],
     signature |-> [R8 |-> <<>>, S |-> <<>>], publicKey |-> <<>>]

\* The front end as App first renders it, no handler run yet
FrontEndAtRest ==
    /\ proofService = NewProofService("ProofGenerator")
    /\ returned = NoCalls
    /\ activePage = "pod-creator"
    /\ podCreator = PODCreatorMounted
    /\ proofGenerator = ProofGeneratorMounted
    /\ proofVerifier = ProofVerifierMounted
    /\ script = NotRun

-----------------------------------------------------------------------------
(* The prover.  `in` is the input last handed to the circuit and `out` what *)
(* the circuit makes of it; `prev` and `prevOut` are the input it was        *)
(* derived from (itself, for an input assembled afresh).                     *)

\* An input assembled afresh: no earlier input it derives from.
Fresh(d, i, name) ==
    /\ data = d
    /\ in = i
    /\ out = Circuit(i)
    /\ prev = in
    /\ prevOut = out
    /\ op = name
    /\ FrontEndAtRest

\* The owner of a tree proves one of its leaves.
ProveHonest ==
    \E d \in [0..(2 ^ (depth - 1) - 1) -> Pairs], idx \in 0..(2 ^ depth - 1),
       sk \in PrivateKeys :
        Fresh(d, HonestInput(d, idx, sk, 0, MaxBound), "ProveHonest")

\* A prover without a tree: any value, index and siblings, the root the
\* circuit computes from them (it logs it), signed with the prover's key.
ProveSelfConsistent ==
    \E v \in {1, 2}, k \in {1, 2}, idx \in 0..(2 ^ depth - 1),
       upper \in [1..(depth - 1) -> ElementPool], sk \in {1} :
        LET sibs == [l \in 0..(depth - 1) |->
                        IF l = 0 THEN Poseidon1(Num(k)) ELSE upper[l]]
            computed == MerkleHashAt(v, Num2BitsOut(depth, idx), sibs, depth)
            signature == SignMessage(sk, computed)
        IN  Fresh(ReferenceData,
                  [key           |-> k,
                   value         |-> v,
                   index         |-> idx,
                   siblings      |-> sibs,
                   root          |-> computed,
                   lowerbound    |-> 0,
                   upperbound    |-> MaxBound,
                   pubKey        |-> DerivePublicKey(sk),
                   signedRoot_R8 |-> signature.R8,
                   signedRoot_S  |-> signature.S],
                  "ProveSelfConsistent")

\* The reference tree with any value in its first pair, under any bounds.
ProveBounds ==
    \E v \in Field, lb \in Field, ub \in Field :
        LET d == [ReferenceData EXCEPT ![0] = <<1, v>>]
        IN  Fresh(d, HonestInput(d, 1, 1, lb, ub), "ProveBounds")

\* The inputs a run starts from.
Init == ProveHonest \/ ProveSelfConsistent \/ ProveBounds

\* An input derived by changing part of a satisfying input that was
\* assembled afresh.
Derived(i, name) ==
    /\ out.ok
    /\ prev = in
    /\ i # in
    /\ in' = i
    /\ out' = Circuit(i)
    /\ prev' = in
    /\ prevOut' = out
    /\ op' = name
    /\ UNCHANGED data
    /\ UNCHANGED frontEndVars

ReplaceSibling ==
    \E l \in 0..(depth - 1),
       e \in ElementPool \cup {out.merkleHash[k] : k \in 0..depth} :
        Derived([in EXCEPT !.siblings[l] = e], "ReplaceSibling")

ChangeKey ==
    \E k \in Field : Derived([in EXCEPT !.key = k], "ChangeKey")

ChangeIndex ==
    \E idx \in Field : Derived([in EXCEPT !.index = idx], "ChangeIndex")

SwapPubKey ==
    \E pk \in {DerivePublicKey(sk) : sk \in PrivateKeys} \cup {<<Zero, One>>} :
        Derived([in EXCEPT !.pubKey = pk], "SwapPubKey")

\* Another root in place of the tree's, with or without a signature over it.
ChangeRoot ==
    \E e \in ElementPool \cup {out.merkleHash[k] : k \in 0..depth} :
        Derived([in EXCEPT !.root = e], "ChangeRoot")

SignOtherRoot ==
    \E e \in ElementPool \cup {out.merkleHash[k] : k \in 0..depth},
       sk \in PrivateKeys :
        LET signature == SignMessage(sk, e)
        IN  Derived([in EXCEPT !.root = e,
                               !.pubKey = DerivePublicKey(sk),
                               !.signedRoot_R8 = signature.R8,
                               !.signedRoot_S = signature.S],
                    "SignOtherRoot")

Next ==
    \/ ReplaceSibling
    \/ ChangeKey
    \/ ChangeIndex
    \/ SwapPubKey
    \/ ChangeRoot
    \/ SignOtherRoot

Spec == Init /\ [][Next]_vars

-----------------------------------------------------------------------------
(* A ProofService called directly.  ProofGenerator and ProofVerifier each   *)
(* construct their own: an instance either proves or verifies.              *)

\* The circuit's variables while the front end runs: the reference input
CircuitAtReference ==
    /\ data = ReferenceData
    /\ in = HonestInput(ReferenceData, 1, 1, 0, MaxBound)
    /\ out = Circuit(in)
    /\ prev = in
    /\ prevOut = out
    /\ op = "ProveHonest"

ProofServiceInit ==
    /\ CircuitAtReference
    /\ \E who \in {"ProofGenerator", "ProofVerifier"} :
          proofService = NewProofService(who)
    /\ returned = NoCalls
    /\ activePage = "pod-creator"
    /\ podCreator = PODCreatorMounted
    /\ proofGenerator = ProofGeneratorMounted
    /\ proofVerifier = ProofVerifierMounted
    /\ script = NotRun

\* proofService.generateProof(req)
CallGenerateProof ==
    \E req \in Requests :
        /\ proofService.owner = "ProofGenerator"
        /\ returned' = [returned EXCEPT
               !.proofs = <<[request |-> req, outcome |-> GenerateProof(req)]>>
                          \o Keep(@)]
        /\ UNCHANGED <<proofService, circuitVars, appVars, script>>

\* proofService.verifyProof(proof, publicSignals), with what the fetch of
\* the key delivers should the call come to fetch it
CallVerifyProof ==
    \E x \in Verifiables, fetched \in FetchOutcomes :
        /\ proofService.owner = "ProofVerifier"
        /\ proofService' =
               [proofService EXCEPT
                   !.vKey = VerifyProof(@, x.proof, x.publicSignals, fetched).vKey]
        /\ returned' = [returned EXCEPT
               !.verifications =
                   <<[proof         |-> x.proof,
                      publicSignals |-> x.publicSignals,
                      fetched       |-> fetched,
                      result        |-> VerifyProof(proofService.vKey, x.proof,
                                                    x.publicSignals, fetched).result]>>
                   \o Keep(@)]
        /\ UNCHANGED <<circuitVars, appVars, script>>

ProofServiceNext == CallGenerateProof \/ CallVerifyProof

SpecProofService == ProofServiceInit /\ [][ProofServiceNext]_vars

-----------------------------------------------------------------------------
(* The React application.  App renders the component of the active page    *)
(* only, so a page that is left unmounts and mounts anew when it is         *)
(* returned to: podCreator, proofGenerator and proofVerifier hold what the  *)
(* page's component holds while it is mounted and what it will mount with   *)
(* while it is not.  A handler with an await in it takes two steps, one up  *)
(* to the await and one after it; the handlers of the page can run between  *)
(* the two, and a page left in between unmounts and drops what settles.     *)

Pages == {"pod-creator", "proof-generator", "proof-verifier"}

\* Texts typed or pasted into the JSON input of PODCreator
JsonTexts ==
    {JsonOf(DataOf(n, 2, 0)) : n \in 1..MaxPairs}
    \cup {JsonOf(<<[key |-> OtherText, value |-> Str(Num(1))]>>), OtherText}

\* Texts pasted into the POD input of ProofGenerator: PODs of one pair, of
\* a full tree and of one pair more, one with another POD's root, one with
\* an empty root, and a text that is no JSON
PodTexts ==
    {JsonOf(PodOf(DataOf(n, 1, 0), Str(Num(1)))) : n \in {1, FullPairs, MaxPairs}}
    \cup {JsonOf([PodOf(DataOf(FullPairs, 1, 0), Str(Num(1))) EXCEPT
                     !.merkleRoot = PodOf(DataOf(FullPairs, 2, 0), Str(Num(1))).merkleRoot]),
          JsonOf([PodOf(DataOf(FullPairs, 1, 0), Str(Num(1))) EXCEPT
                     !.merkleRoot = EmptyText]),
          OtherText}

\* Texts pasted into the proof input of ProofVerifier
ProofTexts ==
    {JsonOf([proof |-> x.proof, publicSignals |-> x.publicSignals,
             description |-> Description(ReferenceRequest)]) : x \in Verifiables}
    \cup {OtherText}

AppInit ==
    /\ CircuitAtReference
    /\ FrontEndAtRest

\* Navigation: setActivePage(page)
Navigate ==
    \E page \in Pages \ {activePage} :
        /\ activePage' = page
        /\ podCreator' = PODCreatorMounted
        /\ proofGenerator' = ProofGeneratorMounted
        /\ proofVerifier' = ProofVerifierMounted
        /\ UNCHANGED <<circuitVars, serviceVars, script>>

\* A step of the PODCreator page
InCreator(next) ==
    /\ activePage = "pod-creator"
    /\ podCreator' = next
    /\ UNCHANGED <<activePage, proofGenerator, proofVerifier,
                   circuitVars, serviceVars, script>>

\* The private key input, onChange
EditPrivateKey ==
    \E t \in PrivateKeyTexts \cup {EmptyText} :
        InCreator([podCreator EXCEPT !.privateKey = t])

\* importPrivateKey
ImportPrivateKey ==
    InCreator(IF Blank(podCreator.privateKey)
              THEN [podCreator EXCEPT
                       !.error = "Failed to import private key: Private key is required"]
              ELSE [podCreator EXCEPT
                       !.error = "",
                       !.keyPair = ImportKeyPair(podCreator.privateKey),
                       !.generatedPublicKey =
                           Arr(<<Str(ImportKeyPair(podCreator.privateKey).publicKey[1]),
                                 Str(ImportKeyPair(podCreator.privateKey).publicKey[2])>>)])

\* generateKeyPair, with the key the service draws
GenerateKeyPair ==
    \E t \in PrivateKeyTexts :
        InCreator([podCreator EXCEPT
                      !.error = "",
                      !.keyPair = ImportKeyPair(t),
                      !.privateKey = t,
                      !.generatedPublicKey =
                          Arr(<<Str(ImportKeyPair(t).publicKey[1]),
                                Str(ImportKeyPair(t).publicKey[2])>>)])

\* The JSON input, onChange
EditJsonInput ==
    \E t \in JsonTexts : InCreator([podCreator EXCEPT !.jsonInput = t])

\* parseJsonInput
ParseJsonInput ==
    InCreator(IF IsJson(podCreator.jsonInput)
              THEN [podCreator EXCEPT
                       !.error = "", !.keyValuePairs = ParseJson(podCreator.jsonInput)]
              ELSE [podCreator EXCEPT !.error = "Failed to parse JSON"])

\* createPOD: the pairs with a key and a value
ValidPairs(pairs) == SelectSeq(pairs, LAMBDA e : ~Blank(e.key) /\ ~Blank(e.value))

\* createPOD
CreatePOD ==
    LET validPairs == ValidPairs(podCreator.keyValuePairs)
        built == BuildTree([ServiceReset EXCEPT !.data = validPairs])
    IN  InCreator(
          IF Len(validPairs) = 0
          THEN [podCreator EXCEPT
                   !.pod = NoPod,
                   !.error = "Failed to create POD: At least one valid key-value pair is required"]
          ELSE IF Blank(podCreator.privateKey)
          THEN [podCreator EXCEPT
                   !.pod = NoPod,
                   !.error = "Failed to create POD: Private key is required. Generate or import one first."]
          ELSE IF built.threw
          THEN [podCreator EXCEPT
                   !.pod = NoPod,
                   !.merkleService = built.service,
                   !.error = "Failed to create POD: cannot build the tree"]
          ELSE IF podCreator.keyPair = NoKeyPair
          THEN [podCreator EXCEPT
                   !.pod = NoPod,
                   !.merkleService = built.service,
                   !.error = "Failed to create POD: Failed to sign POD: No valid key pair available for signing"]
          ELSE [podCreator EXCEPT
                   !.pod = SignPOD(podCreator.keyPair, ExportData(built.service)),
                   !.merkleService = built.service,
                   !.error = ""])

\* verifyPOD, behind a button that is disabled while there is no pod
VerifyCreatedPOD ==
    /\ podCreator.pod # NoPod
    /\ InCreator([podCreator EXCEPT
                     !.error = IF VerifyPOD(podCreator.pod) THEN ""
                               ELSE "Verification failed: POD signature is invalid"])

\* A step of the ProofGenerator page
InGenerator(next) ==
    /\ activePage = "proof-generator"
    /\ proofGenerator' = next
    /\ UNCHANGED <<activePage, podCreator, proofVerifier,
                   circuitVars, serviceVars, script>>

\* handleDirectPodInputChange
EditPodInput ==
    \E t \in PodTexts : InGenerator([proofGenerator EXCEPT !.directPodInput = t])

\* parsePOD
ParsePOD ==
    LET text == proofGenerator.directPodInput
        cleared == [proofGenerator EXCEPT
                       !.error = "", !.localPod = NoPod,
                       !.localSelectedKeyIndex = -1, !.localProof = NoProof]
        imported == ImportData(ParseJson(text))
    IN  InGenerator(
          IF Blank(text)
          THEN [cleared EXCEPT !.error = "Failed to parse POD: POD input is required"]
          ELSE IF ~IsJson(text)
          THEN [cleared EXCEPT !.error = "Failed to parse POD: no JSON"]
          ELSE IF Falsy(ParseJson(text).merkleRoot) \/ Falsy(ParseJson(text).publicKey)
          THEN [cleared EXCEPT !.error = "Failed to parse POD: Invalid POD format"]
          ELSE IF imported.threw
          THEN [cleared EXCEPT
                   !.merkleService = imported.service,
                   !.error = "Failed to parse POD: Failed to import data"]
          ELSE [cleared EXCEPT
                   !.merkleService = imported.service,
                   !.localPod = ParseJson(text)])

\* The key select, rendered once a POD is loaded: no key, or one of its pairs
SelectKey ==
    /\ proofGenerator.localPod # NoPod
    /\ \E k \in -1..(Len(proofGenerator.localPod.data) - 1) :
          InGenerator([proofGenerator EXCEPT !.localSelectedKeyIndex = k])

\* What is typed into the bound inputs
BoundTexts == {Str(Num(0)), Str(Num(1)), Str(Num(MaxBound))}

\* The lower bound input, rendered once a POD is loaded
EditLowerBound ==
    /\ proofGenerator.localPod # NoPod
    /\ \E t \in BoundTexts \ {Str(Num(MaxBound))} :
          InGenerator([proofGenerator EXCEPT !.localLowerBound = t])

\* The upper bound input, rendered once a POD is loaded
EditUpperBound ==
    /\ proofGenerator.localPod # NoPod
    /\ \E t \in BoundTexts \ {Str(Num(0)), Str(Num(1))} :
          InGenerator([proofGenerator EXCEPT !.localUpperBound = t])

\* generateProof up to its await, behind a button that is rendered once a
\* POD is loaded and disabled while no key is selected or a proof is being
\* generated.  A validation that throws is caught at once; otherwise the
\* request is handed to proofService.generateProof and the handler waits.
ProofGeneratorGenerateProof ==
    LET g == proofGenerator
        request == AssembleRequest(g.merkleService, g.localPod,
                                   g.localSelectedKeyIndex,
                                   g.localLowerBound, g.localUpperBound)
    IN  /\ g.localPod # NoPod
        /\ g.localSelectedKeyIndex # -1
        /\ ~g.isGeneratingProof
        /\ InGenerator(
             IF Blank(g.localLowerBound) \/ Blank(g.localUpperBound)
             THEN [g EXCEPT
                      !.localProof = NoProof, !.proofRequest = NoRequest,
                      !.pending = GenerateProof(NoRequest),
                      !.error = "Failed to generate proof: Both lower and upper bounds are required"]
             ELSE [g EXCEPT
                      !.localProof = NoProof, !.proofRequest = request,
                      !.pending = GenerateProof(request),
                      !.isGeneratingProof = TRUE,
                      !.error = ""])

\* As GenerateProofSettles, without the finally block when the call rejects.
GenerateProofSettlesNoFinally ==
    LET g == proofGenerator
        outcome == g.pending
    IN  /\ g.isGeneratingProof
        /\ InGenerator(
             IF outcome.threw
             THEN [g EXCEPT !.error = "Failed to generate proof"]
             ELSE [g EXCEPT
                      !.localProof = [proof |-> outcome.proof,
                                      publicSignals |-> outcome.publicSignals,
                                      description |-> outcome.description],
                      !.isGeneratingProof = FALSE])

\* generateProof after its await: the call of proofService.generateProof
\* has settled; setLocalProof or the catch block, then the finally block
GenerateProofSettles ==
    LET g == proofGenerator
        outcome == g.pending
    IN  /\ g.isGeneratingProof
        /\ InGenerator(
             IF outcome.threw
             THEN [g EXCEPT
                      !.error = "Failed to generate proof",
                      !.isGeneratingProof = FALSE]
             ELSE [g EXCEPT
                      !.localProof = [proof |-> outcome.proof,
                                      publicSignals |-> outcome.publicSignals,
                                      description |-> outcome.description],
                      !.isGeneratingProof = FALSE])

\* A step of the ProofVerifier page
InVerifier(next) ==
    /\ activePage = "proof-verifier"
    /\ proofVerifier' = next
    /\ UNCHANGED <<activePage, podCreator, proofGenerator,
                   circuitVars, serviceVars, script>>

\* handleProofInputChange
EditProofInput ==
    \E t \in ProofTexts :
        InVerifier([proofVerifier EXCEPT
                       !.localProofInput = t, !.localVerificationResult = NoResult])

\* verifyProof up to its await, behind a button that is disabled while a
\* proof is being verified.  A text that is blank or does not parse is
\* caught at once; otherwise the handler waits for proofService.verifyProof.
ProofVerifierVerifyProof ==
    LET v == proofVerifier
        text == v.localProofInput
    IN  /\ ~v.isVerifying
        /\ InVerifier(
             IF Blank(text)
             THEN [v EXCEPT !.localVerificationResult = NoResult,
                            !.error = "Failed to verify proof: Proof input is required"]
             ELSE IF ~IsJson(text)
             THEN [v EXCEPT !.localVerificationResult = NoResult,
                            !.error = "Failed to verify proof: Failed to import proof"]
             ELSE IF Falsy(ParseJson(text).proof) \/ Falsy(ParseJson(text).publicSignals)
             THEN [v EXCEPT !.localVerificationResult = NoResult,
                            !.error = "Failed to verify proof: Invalid proof format"]
             ELSE [v EXCEPT !.localVerificationResult = NoResult,
                            !.error = "",
                            !.isVerifying = TRUE,
                            !.verifiedInput = text])

\* verifyProof after its await, with what the fetch of the verification key
\* delivered: setLocalVerificationResult, then the finally block
VerifyProofSettles ==
    \E fetched \in FetchOutcomes :
        LET v == proofVerifier
            verified == VerifyProof(v.vKey, ParseJson(v.verifiedInput).proof,
                                    ParseJson(v.verifiedInput).publicSignals, fetched)
        IN  /\ v.isVerifying
            /\ InVerifier([v EXCEPT
                              !.vKey = verified.vKey,
                              !.localVerificationResult =
                                  [shown |-> TRUE, isValid |-> verified.result],
                              !.error = IF verified.result THEN @
                                        ELSE "Proof verification failed",
                              !.isVerifying = FALSE])

\* The timer verifyProof sets once it has a result: setError('')
VerifierMessageExpires ==
    /\ proofVerifier.error # ""
    /\ proofVerifier.localVerificationResult.shown
    /\ InVerifier([proofVerifier EXCEPT !.error = ""])

AppNext ==
    \/ Navigate
    \/ EditPrivateKey
    \/ ImportPrivateKey
    \/ GenerateKeyPair
    \/ EditJsonInput
    \/ ParseJsonInput
    \/ CreatePOD
    \/ VerifyCreatedPOD
    \/ EditPodInput
    \/ ParsePOD
    \/ SelectKey
    \/ EditLowerBound
    \/ EditUpperBound
    \/ ProofGeneratorGenerateProof
    \/ GenerateProofSettles
    \/ EditProofInput
    \/ ProofVerifierVerifyProof
    \/ VerifyProofSettles
    \/ VerifierMessageExpires

SpecApp == AppInit /\ [][AppNext]_vars

\* The application when every call of proofService.generateProof settles:
\* the promise the handler awaits is resolved or rejected in the end.
SpecAppSettling == SpecApp /\ WF_vars(GenerateProofSettles)

-----------------------------------------------------------------------------
(* The scripts of generate-circuit-test-data.  `script` is what the script  *)
(* last run has built and printed.  The pairs and the leaf to prove are      *)
(* constants of the script files, which are edited by hand: a run is taken   *)
(* with the first n of the ten pairs and with any leaf of the tree.          *)

\* keyValuePairs of my-signed-merkle-tree.js, the same numbers as the leaves
\* of my-merkle-tree.js
ScriptPairs ==
    <<[key |-> 1, value |-> 111], [key |-> 2, value |-> 222],
      [key |-> 3, value |-> 333], [key |-> 4, value |-> 444],
      [key |-> 5, value |-> 555], [key |-> 6, value |-> 666],
      [key |-> 7, value |-> 777], [key |-> 8, value |-> 888],
      [key |-> 9, value |-> 999], [key |-> 10, value |-> 1010]>>

\* my-merkle-tree.js: [1, 111, 2, 222, ...].map(value => poseidon1([value]))
MerkleTreeScriptLeaves(n) ==
    [j \in 1..(2 * n) |->
        Poseidon1(Num(IF j % 2 = 1 THEN ScriptPairs[(j + 1) \div 2].key
                                   ELSE ScriptPairs[j \div 2].value))]

\* my-signed-merkle-tree.js, the loop: leaves.push(valueHash);
\* leaves.push(keyHash)
SignedScriptLeaves(n) ==
    [j \in 1..(2 * n) |->
        Poseidon1(Num(IF j % 2 = 1 THEN ScriptPairs[(j + 1) \div 2].value
                                   ELSE ScriptPairs[j \div 2].key))]

\* The leaf both scripts prove as they stand
ScriptLeafIndex == 7

\* The private key of my-signed-merkle-tree.js: "1".padStart(64, "0")
ScriptPrivateKey == 1

ScriptsInit ==
    /\ CircuitAtReference
    /\ FrontEndAtRest

\* node src/my-merkle-tree.js
RunMerkleTreeScript ==
    \E n \in 1..Len(ScriptPairs) : \E idx \in 0..(2 * n - 1) :
        /\ script' = [name      |-> "my-merkle-tree.js",
                      leaves    |-> MerkleTreeScriptLeaves(n),
                      proved    |-> idx,
                      proof     |-> LeanGenerateProof(MerkleTreeScriptLeaves(n), idx),
                      signature |-> NotRun.signature,
                      publicKey |-> NotRun.publicKey]
        /\ UNCHANGED <<circuitVars, serviceVars, appVars>>

\* node src/my-signed-merkle-tree.js
RunSignedScript ==
    \E n \in 1..Len(ScriptPairs) : \E idx \in 0..(2 * n - 1) :
        /\ script' = [name      |-> "my-signed-merkle-tree.js",
                      leaves    |-> SignedScriptLeaves(n),
                      proved    |-> idx,
                      proof     |-> LeanGenerateProof(SignedScriptLeaves(n), idx),
                      signature |-> SignMessage(ScriptPrivateKey,
                                                LeanRoot(SignedScriptLeaves(n))),
                      publicKey |-> DerivePublicKey(ScriptPrivateKey)]
        /\ UNCHANGED <<circuitVars, serviceVars, appVars>>

ScriptsNext ==
    \/ RunMerkleTreeScript
    \/ RunSignedScript

SpecScripts == ScriptsInit /\ [][ScriptsNext]_vars

-----------------------------------------------------------------------------
(* Properties *)

Pow2Depth == 2 ^ depth

Pow2Width == 2 ^ BitWidth

\* The current input is the previous one with only the named part changed.
OneSiblingReplaced ==
    \E l \in 0..(depth - 1) :
        /\ in.siblings[l] # prev.siblings[l]
        /\ in = [prev EXCEPT !.siblings[l] = in.siblings[l]]

OnlyKeyChanged == in.key # prev.key /\ in = [prev EXCEPT !.key = in.key]

OnlyIndexChanged == in.index # prev.index /\ in = [prev EXCEPT !.index = in.index]

OnlyPubKeyChanged ==
    in.pubKey # prev.pubKey /\ in = [prev EXCEPT !.pubKey = in.pubKey]

\* C1: for every full tree of 2^depth leaves and every leaf index, the
\* circuit's fold of the leaf with the tree's own co-path siblings passes
\* through the tree's nodes on the path, ends at the tree's root, and
\* satisfies root === merkleHash[depth].
C1_PathReconstructsRoot ==
    op = "ProveHonest" =>
        /\ \A k \in 0..depth :
               out.merkleHash[k] = Node(Leaves(data), k, in.index \div (2 ^ k))
        /\ out.merkleHash[depth] = GetRoot(Leaves(data))
        /\ out.rootOk

\* A tree with two different pairs, proved at a left leaf above position 0.
C1_Witness ==
    /\ op = "ProveHonest"
    /\ data[0] # data[1]
    /\ in.index = Pow2Depth - 2
    /\ out.rootOk

\* C2: from an input that satisfies root === merkleHash[depth], replacing
\* exactly one sibling, at any level, by a different element makes the
\* constraint fail.
C2_ReplacedSiblingFails ==
    (prevOut.rootOk /\ OneSiblingReplaced) => ~out.rootOk

\* The top sibling of a satisfying input replaced.
C2_Witness ==
    /\ op = "ReplaceSibling"
    /\ prevOut.rootOk
    /\ OneSiblingReplaced
    /\ in.siblings[depth - 1] # prev.siblings[depth - 1]
    /\ ~out.rootOk

\* C3: every satisfying input has siblings[0] = Hash(key), and changing
\* only the key of a satisfying input leaves it unsatisfying.
C3_KeyBinding ==
    /\ out.ok => in.siblings[0] = Poseidon1(Num(in.key))
    /\ (prevOut.ok /\ OnlyKeyChanged) => ~out.ok

\* The key of a satisfying input changed, and the key binding failing.
C3_Witness ==
    /\ op = "ChangeKey"
    /\ prevOut.ok
    /\ OnlyKeyChanged
    /\ ~out.keyOk
    /\ ~out.ok

\* C4: no input satisfies the circuit unless lowerbound < value < upperbound
\* as integers, whatever field elements the two bounds are.
C4_ValueStrictlyInsideBounds ==
    out.ok => (in.lowerbound < in.value /\ in.value < in.upperbound)

\* C5: no satisfying input has lowerbound, value or upperbound at or above
\* 2^BitWidth.
C5_AllThreeBitBounded ==
    out.ok =>
        /\ in.lowerbound < Pow2Width
        /\ in.value < Pow2Width
        /\ in.upperbound < Pow2Width

\* C6: when lowerbound, value and upperbound are all below 2^BitWidth, the
\* two bound constraints hold exactly when lowerbound < value < upperbound.
C6_BoundStrictness ==
    (in.lowerbound < Pow2Width /\ in.value < Pow2Width /\ in.upperbound < Pow2Width)
        => ((out.lessThanOk /\ out.greaterThanOk)
                <=> (in.lowerbound < in.value /\ in.value < in.upperbound))

\* A value equal to its lower bound and below its upper bound, rejected by
\* the greater-than constraint alone.
C6_Witness ==
    /\ op = "ProveBounds"
    /\ in.value = in.lowerbound
    /\ in.value < in.upperbound
    /\ in.upperbound < Pow2Width
    /\ out.lessThanOk
    /\ ~out.greaterThanOk

\* C7: from an input that satisfies the circuit, replacing only pubKey by a
\* different key leaves it unsatisfying.
C7_SignatureBinding ==
    (prevOut.ok /\ OnlyPubKeyChanged) => ~out.ok

\* The key of the signer replaced by the key of another signer.
C7_Witness ==
    /\ op = "SwapPubKey"
    /\ prevOut.ok
    /\ OnlyPubKeyChanged
    /\ \E sk \in PrivateKeys : in.pubKey = DerivePublicKey(sk)
    /\ ~out.sigOk

\* C8: in every satisfying input the message given to the verifier is
\* merkleHash[depth], and the signature verifies for merkleHash[depth]
\* under pubKey.
C8_OneRoot ==
    out.ok =>
        /\ out.message = out.merkleHash[depth]
        /\ EdDSAPoseidonVerifier(1, in.pubKey[1], in.pubKey[2], in.signedRoot_S,
                                 in.signedRoot_R8[1], in.signedRoot_R8[2],
                                 out.merkleHash[depth])

\* A satisfying input, and one whose signature is over another root.
C8_Witness ==
    /\ op = "SignOtherRoot"
    /\ prevOut.ok
    /\ prevOut.message = prevOut.merkleHash[depth]
    /\ out.sigOk
    /\ out.message # out.merkleHash[depth]
    /\ ~out.ok

\* C9: each bit decomposition of the circuit (index into depth bits, value
\* and upperbound into BitWidth bits) has a satisfying assignment exactly
\* when its input is below 2^width; every satisfying assignment is of bits
\* that sum to the input, and it is the one the witness program computes;
\* an index of 2^depth or more leaves the circuit unsatisfied.
C9_BitDecomposition ==
    /\ out.indexBits.input = in.index /\ out.indexBits.width = depth
    /\ out.valueBits.input = in.value /\ out.valueBits.width = BitWidth
    /\ out.upperboundBits.input = in.upperbound
    /\ out.upperboundBits.width = BitWidth
    /\ \A c \in {out.indexBits, out.valueBits, out.upperboundBits} :
           /\ Satisfiable(c) <=> c.input < 2 ^ c.width
           /\ Satisfiable(c) <=> c.ok
           /\ \A b \in [0..(c.width - 1) -> BitSolutions] :
                  Num2BitsConstraints(c.width, c.input, b) =>
                      /\ Lc1(c.width, b) = c.input
                      /\ b = c.bits
    /\ BitSolutions = {0, 1}
    /\ in.index >= Pow2Depth => ~out.ok

\* An index of 2^depth or more, with no decomposition.
C9_Witness ==
    /\ op = "ChangeIndex"
    /\ in.index >= Pow2Depth
    /\ ~Satisfiable(out.indexBits)
    /\ Satisfiable(out.valueBits)
    /\ ~out.ok

\* The levels at which the selector bit of the current index differs from
\* that of the previous one.
FlippedLevels ==
    {l \in 0..(depth - 1) : out.indexBits.bits[l] # prevOut.indexBits.bits[l]}

\* C10 as stated: from an input that satisfies root === merkleHash[depth],
\* changing only the index, to any other value below 2^depth, makes the
\* constraint fail.
C10_AnyOtherIndexFails ==
    (prevOut.rootOk /\ OnlyIndexChanged /\ in.index < Pow2Depth) => ~out.rootOk

\* C10 as amended: the constraint fails exactly when, at some level whose
\* selector bit is flipped, the sibling differs from the running hash.
C10_OtherIndexFailsUnlessSiblingEqual ==
    (prevOut.rootOk /\ OnlyIndexChanged /\ in.index < Pow2Depth) =>
        (~out.rootOk <=>
            \E l \in FlippedLevels : prev.siblings[l] # prevOut.merkleHash[l])

\* The top selector bit alone flipped, over a sibling that differs.
C10_Witness ==
    /\ op = "ChangeIndex"
    /\ prevOut.rootOk
    /\ OnlyIndexChanged
    /\ in.index < Pow2Depth
    /\ FlippedLevels = {depth - 1}
    /\ prev.siblings[depth - 1] # prevOut.merkleHash[depth - 1]
    /\ ~out.rootOk

-----------------------------------------------------------------------------
(* Selection without branching *)

\* The pair of hasher inputs the spec's MerklePathStep selects.
ConditionalStep(b, h, s) == IF b = 0 THEN Poseidon2(h, s) ELSE Poseidon2(s, h)

\* C18: for a selector bit in {0, 1}, the hasher inputs the circuit computes
\* as sums of products are the ones a conditional would select: at every
\* level of the input at hand, and for every number of the field paired with
\* the input's first sibling in either role.
C18_BranchFreeSelection ==
    /\ \A k \in 0..(depth - 1) :
          out.merkleHash[k + 1] =
              ConditionalStep(out.indexBits.bits[k], out.merkleHash[k],
                              in.siblings[k])
    /\ \A b \in {0, 1} : \A x \in Field :
          /\ MerkleStep(b, Num(x), in.siblings[0]) =
                 ConditionalStep(b, Num(x), in.siblings[0])
          /\ MerkleStep(b, in.siblings[0], Num(x)) =
                 ConditionalStep(b, in.siblings[0], Num(x))

\* An accepted input whose path turns right at one level and left at
\* another, with a sibling that differs from the running hash at both.
C18_Witness ==
    /\ out.ok
    /\ \E k \in 0..(depth - 1) :
          out.indexBits.bits[k] = 1 /\ in.siblings[k] # out.merkleHash[k]
    /\ \E k \in 0..(depth - 1) :
          out.indexBits.bits[k] = 0 /\ in.siblings[k] # out.merkleHash[k]

-----------------------------------------------------------------------------
(* The proof service: privacy, malformed requests, repeated verification *)

\* Two calls of generateProof that both returned a proof
BothProved ==
    /\ Len(returned.proofs) = 2
    /\ ~returned.proofs[1].outcome.threw
    /\ ~returned.proofs[2].outcome.threw

SamePublicPart(q1, q2) ==
    /\ q1.key = q2.key
    /\ q1.lowerbound = q2.lowerbound
    /\ q1.upperbound = q2.upperbound
    /\ q1.pubKey = q2.pubKey

\* C11: two requests that both yield a proof and agree on key, lowerbound,
\* upperbound and pubKey yield the same publicSignals and the same
\* description, whatever their value, index, siblings, root and signature;
\* the public signals are key, lowerbound, upperbound and pubKey.
C11_ProofObjectPrivacy ==
    (BothProved /\ SamePublicPart(returned.proofs[1].request, returned.proofs[2].request))
    => /\ returned.proofs[1].outcome.publicSignals =
              returned.proofs[2].outcome.publicSignals
       /\ returned.proofs[1].outcome.description =
              returned.proofs[2].outcome.description
       /\ returned.proofs[1].outcome.proof = returned.proofs[2].outcome.proof
       /\ returned.proofs[1].outcome.publicSignals =
              Arr(<<returned.proofs[1].request.key,
                    returned.proofs[1].request.lowerbound,
                    returned.proofs[1].request.upperbound,
                    Elems(returned.proofs[1].request.pubKey)[1],
                    Elems(returned.proofs[1].request.pubKey)[2]>>)

\* Two proofs for the same public part from requests that differ in value,
\* index, siblings, root and both parts of the signature.
C11_Witness ==
    /\ BothProved
    /\ SamePublicPart(returned.proofs[1].request, returned.proofs[2].request)
    /\ returned.proofs[1].request.value # returned.proofs[2].request.value
    /\ returned.proofs[1].request.index # returned.proofs[2].request.index
    /\ returned.proofs[1].request.siblings # returned.proofs[2].request.siblings
    /\ returned.proofs[1].request.root # returned.proofs[2].request.root
    /\ returned.proofs[1].request.signedRoot_R8 # returned.proofs[2].request.signedRoot_R8
    /\ returned.proofs[1].request.signedRoot_S # returned.proofs[2].request.signedRoot_S

\* The shape the circuit's signal table asks of a request: decimal strings,
\* depth siblings, two coordinates for the key and for R8
WellShaped(req) ==
    /\ IsArray(req.siblings) /\ IsArray(req.signedRoot_R8) /\ IsArray(req.pubKey)
    /\ FitsSignals(req)

\* C13: a request of malformed shape is turned away with an error before
\* snarkjs.groth16.fullProve is called.
C13_MalformedRejectedBeforeProving ==
    \A j \in 1..Len(returned.proofs) :
        ~WellShaped(returned.proofs[j].request)
        => /\ returned.proofs[j].outcome.threw
           /\ ~returned.proofs[j].outcome.fullProveCalled

\* C14: two calls of verifyProof with the same proof and public signals
\* return the same result, true both times for a valid proof, whether the
\* key was fetched, cached or failed to load.
C14_VerifyTwiceSameResult ==
    (/\ Len(returned.verifications) = 2
     /\ returned.verifications[1].proof = returned.verifications[2].proof
     /\ returned.verifications[1].publicSignals = returned.verifications[2].publicSignals)
    => /\ returned.verifications[1].result = returned.verifications[2].result
       /\ returned.verifications[1].proof =
              Groth16Proof(returned.verifications[1].publicSignals)
          => returned.verifications[1].result

-----------------------------------------------------------------------------
(* The front end against the circuit *)

\* The services of the two components that hold a MerkleTreeService
MerkleServices == {podCreator.merkleService, proofGenerator.merkleService}

\* The circuit's tree signals as getProof(k) of the service svc returns them
TreeSignals(svc, k) ==
    LET answer == ServiceGetProof(svc, k)
    IN  [key      |-> BigIntOf(answer.key)[1],
         value    |-> BigIntOf(answer.value)[1],
         index    |-> BigIntOf(answer.index)[1],
         siblings |-> [l \in 0..(Len(Elems(answer.siblings)) - 1) |->
                          BigIntOf(Elems(answer.siblings)[l + 1])],
         root     |-> BigIntOf(answer.root)]

\* C12: the request ProofGenerator.generateProof assembles for a loaded POD
\* and a selected pair has exactly depth siblings and an index below 2^depth
\* whose bits are the positions of the value leaf's path, however many pairs
\* the POD has.
C12_RequestFitsSignalTable ==
    [][ProofGeneratorGenerateProof /\ proofGenerator'.proofRequest # NoRequest =>
          LET request == proofGenerator'.proofRequest
              path == LeanGenerateProof(proofGenerator.merkleService.tree,
                                        ValueIndex(proofGenerator.localSelectedKeyIndex))
          IN  /\ Len(Elems(request.siblings)) = depth
              /\ BigIntOf(request.index)[1] < 2 ^ depth
              /\ BigIntOf(request.index)[1] = path.index]_vars

\* C15: switching to another view leaves what every view holds as it was.
C15_StateKeptAcrossViews ==
    [][activePage' # activePage =>
          UNCHANGED <<podCreator, proofGenerator, proofVerifier>>]_vars

\* C16: a POD that createPOD produces is signed with the key the Private Key
\* field holds at that moment, and carries the public key derived from it.
C16_FieldKeySignsPod ==
    [][CreatePOD /\ podCreator'.pod # NoPod =>
          podCreator'.pod = SignPOD(ImportKeyPair(podCreator.privateKey),
                                    ExportData(podCreator'.merkleService))]_vars

\* C19: for a service whose tree is full (2^(depth-1) pairs), what getProof
\* returns for every pair satisfies the circuit's index decomposition, its
\* key binding and its root constraint.
C19_FullTreeAgreesWithCircuit ==
    \A svc \in MerkleServices :
        Len(svc.tree) = 2 ^ depth =>
            \A k \in 0..(FullPairs - 1) :
                /\ IndexBits(TreeSignals(svc, k)).ok
                /\ KeyBinding(TreeSignals(svc, k))
                /\ RootConstraint(TreeSignals(svc, k))

\* ProofGenerator has loaded a POD with a full tree and proved a pair of it.
C19_Witness ==
    /\ Len(proofGenerator.merkleService.tree) = 2 ^ depth
    /\ proofGenerator.localPod # NoPod
    /\ proofGenerator.localProof # NoProof

\* C20: in a built tree the leaves at 2k and 2k+1 are the hashes of key k
\* and of value k, and getProof(k) returns the index 2k+1 and the hash of
\* key k as its first sibling, for any number of pairs.
C20_AdjacencyLayout ==
    \A svc \in MerkleServices :
        Len(svc.tree) > 0 =>
            \A k \in 0..(Len(svc.data) - 1) :
                /\ svc.tree[2 * k + 1] = Poseidon1(BigIntOf(svc.data[k + 1].key))
                /\ svc.tree[2 * k + 2] = Poseidon1(BigIntOf(svc.data[k + 1].value))
                /\ ServiceGetProof(svc, k).index = Str(Num(2 * k + 1))
                /\ Elems(ServiceGetProof(svc, k).siblings)[1]
                       = Str(Poseidon1(BigIntOf(svc.data[k + 1].key)))

\* ProofGenerator has built the tree of a POD with more pairs than fill the
\* circuit's tree.
C20_Witness ==
    /\ proofGenerator.localPod # NoPod
    /\ Len(proofGenerator.merkleService.tree) = 2 * MaxPairs

-----------------------------------------------------------------------------
(* The sample data of the scripts *)

\* C17: when my-signed-merkle-tree.js has run as it stands (ten pairs, leaf
\* 7 proved), the proved leaf is the hash of the value 444 and its first
\* sibling the hash of the key 4, which is what the circuit takes for the
\* pair of key 4 at index 7.
C17_SignedSampleProvesValueLeaf ==
    /\ script.name = "my-signed-merkle-tree.js"
    /\ Len(script.leaves) = 2 * Len(ScriptPairs)
    /\ script.proved = ScriptLeafIndex
    => /\ script.proof.leaf = Poseidon1(Num(444))
       /\ script.proof.siblings[1] = Poseidon1(Num(4))

-----------------------------------------------------------------------------
(* The proof service: its input formatting and its verification *)

\* A field of the ten is absent from the request
Absent(req) ==
    \E v \in {req.key, req.value, req.index, req.siblings, req.root,
               req.lowerbound, req.upperbound, req.signedRoot_R8,
               req.signedRoot_S, req.pubKey} : v = Undefined

\* C21: for every request handed to the service, formatCircuitInputs throws
\* exactly when one of the ten fields is absent, and otherwise returns the
\* ten fields with their values unchanged.
C21_ThrowsExactlyWhenFieldAbsent ==
    \A j \in 1..Len(returned.proofs) :
        /\ FormatCircuitInputs(returned.proofs[j].request).threw
               <=> Absent(returned.proofs[j].request)
        /\ ~FormatCircuitInputs(returned.proofs[j].request).threw
               => FormatCircuitInputs(returned.proofs[j].request).inputs
                      = returned.proofs[j].request

\* C22: while ProofGenerator holds a POD, its MerkleTreeService holds the
\* tree built from that POD's data, with the root the POD states; and after
\* an import that failed it holds no POD.
C22_LoadedPodMatchesTree ==
    /\ proofGenerator.localPod # NoPod =>
          /\ proofGenerator.merkleService.tree
                 = ServiceLeaves(proofGenerator.localPod.data)
          /\ proofGenerator.merkleService.root
                 = LeanRoot(proofGenerator.merkleService.tree)
          /\ Str(proofGenerator.merkleService.root)
                 = proofGenerator.localPod.merkleRoot
    /\ proofGenerator.error = "Failed to parse POD: Failed to import data"
          => proofGenerator.localPod = NoPod

\* ProofGenerator holds the POD its input shows, one with more pairs than
\* fill the circuit's tree.
C22_Witness ==
    /\ proofGenerator.localPod # NoPod
    /\ proofGenerator.directPodInput = JsonOf(proofGenerator.localPod)
    /\ Len(proofGenerator.merkleService.tree) = 2 * MaxPairs

\* C27: a call of verifyProof returns false when the key neither is cached
\* nor can be fetched and when what it verifies with is no verification key;
\* it returns true only for a proof that verifies for the public signals;
\* and a key once stored is the key of every later call, whatever a fetch
\* would deliver.
C27_VerifyProofResolves ==
    [][returned'.verifications # returned.verifications =>
          /\ returned'.verifications[1].result \in BOOLEAN
          /\ (Falsy(proofService.vKey)
                  /\ returned'.verifications[1].fetched = FetchFailed)
                => ~returned'.verifications[1].result
          /\ proofService'.vKey # CircuitKey => ~returned'.verifications[1].result
          /\ returned'.verifications[1].result
                => returned'.verifications[1].proof
                       = Groth16Proof(returned'.verifications[1].publicSignals)
          /\ ~Falsy(proofService.vKey) => proofService'.vKey = proofService.vKey]_vars

\* verifyProof has returned true with the key of an earlier call, when a
\* fetch would have failed.
C27_Witness ==
    /\ Len(returned.verifications) = 2
    /\ returned.verifications[1].result
    /\ returned.verifications[1].fetched = FetchFailed
    /\ proofService.vKey = CircuitKey

-----------------------------------------------------------------------------
(* PODCreator: signing *)

\* C23: a POD signed by signPOD with any key pair passes verifyPOD and
\* carries the data and the root it was given; and the POD that PODCreator
\* holds passes Verify POD and carries what its MerkleTreeService exports.
C23_SignVerifyRoundTrip ==
    /\ \A svc \in MerkleServices : \A t \in PrivateKeyTexts :
          Len(svc.tree) > 0 =>
              /\ VerifyPOD(SignPOD(ImportKeyPair(t), ExportData(svc)))
              /\ SignPOD(ImportKeyPair(t), ExportData(svc)).data = svc.data
              /\ SignPOD(ImportKeyPair(t), ExportData(svc)).merkleRoot = Str(svc.root)
    /\ podCreator.pod # NoPod =>
          /\ VerifyPOD(podCreator.pod)
          /\ podCreator.pod.data = podCreator.merkleService.data
          /\ podCreator.pod.merkleRoot = Str(podCreator.merkleService.root)

\* PODCreator holds a POD of more pairs than fill the circuit's tree, and
\* its service has since been given another key than the one that signed.
C23_Witness ==
    /\ podCreator.pod # NoPod
    /\ Len(podCreator.pod.data) = MaxPairs
    /\ podCreator.keyPair # NoKeyPair
    /\ podCreator.pod.publicKey # SignPOD(podCreator.keyPair,
                                          ExportData(podCreator.merkleService)).publicKey

\* C24: Create POD, clicked while a pair has a key and a value and the
\* Private Key field is not blank, leaves a signed POD and no error.
C24_ValidationSuffices ==
    [][(/\ CreatePOD
        /\ Len(ValidPairs(podCreator.keyValuePairs)) > 0
        /\ ~Blank(podCreator.privateKey))
       => /\ podCreator'.pod # NoPod
          /\ podCreator'.error = ""]_vars

-----------------------------------------------------------------------------
(* The asynchronous handlers *)

\* The request q takes its root, signature, public key and pair from the
\* POD p
FromPod(q, p) ==
    /\ q.root = p.merkleRoot
    /\ q.signedRoot_R8 = p.signature.R8
    /\ q.signedRoot_S = p.signature.S
    /\ q.pubKey = p.publicKey
    /\ \E j \in 1..Len(p.data) :
          p.data[j].key = q.key /\ p.data[j].value = q.value

\* C25: a proof that ProofGenerator shows was generated from the POD it
\* holds, whatever ran between the start of generateProof and its end.
C25_ShownProofIsOfLoadedPod ==
    proofGenerator.localProof # NoProof =>
        /\ proofGenerator.localPod # NoPod
        /\ FromPod(proofGenerator.proofRequest, proofGenerator.localPod)
        /\ proofGenerator.localProof.publicSignals
               = GenerateProof(proofGenerator.proofRequest).publicSignals

\* C26: a verification result that ProofVerifier shows is the result for
\* the text its proof input holds, whatever ran between the start of
\* verifyProof and its end.
C26_ShownResultIsOfInput ==
    proofVerifier.localVerificationResult.shown =>
        proofVerifier.verifiedInput = proofVerifier.localProofInput

\* C28: generateProof, once started, comes to set isGeneratingProof back
\* to false when its call settles; and an invocation that failed, in its
\* validation or in the call, leaves no proof and an error.
C28_GeneratingFlagIsReset ==
    /\ proofGenerator.isGeneratingProof ~> ~proofGenerator.isGeneratingProof
    /\ [][GenerateProofSettles =>
             /\ ~proofGenerator'.isGeneratingProof
             /\ proofGenerator.pending.threw =>
                   /\ proofGenerator'.localProof = NoProof
                   /\ proofGenerator'.error # ""]_vars
    /\ [][(ProofGeneratorGenerateProof /\ ~proofGenerator'.isGeneratingProof) =>
             /\ proofGenerator'.localProof = NoProof
             /\ proofGenerator'.error # ""]_vars

\* A call of proofService.generateProof was rejected and the handler has
\* finished: the request is kept, there is no proof, the flag is down.
C28_Witness ==
    /\ proofGenerator.proofRequest # NoRequest
    /\ proofGenerator.pending.threw
    /\ ~proofGenerator.isGeneratingProof
    /\ proofGenerator.localProof = NoProof
    /\ proofGenerator.error = "Failed to generate proof"

====
